---------------------------- MODULE Spec2Model ----------------------------
(***************************************************************************)
(* The streaming chat client of frontend/markdown.js and frontend/script.js:*)
(* one send, its HTTP response, the read loop that decodes the body's byte *)
(* chunks (TextDecoder, stream: true), frames them into lines, handles     *)
(* each line (content / chat_id / error / [DONE] / plain text) and renders *)
(* the running text with updateBotMessage.                                 *)
(*                                                                         *)
(* Text is a sequence of Unicode code points, a chunk a sequence of bytes. *)
(* A JavaScript value is a record [t, n, s, m]: t its type, n a number,    *)
(* s a string, m the members of an object (a sequence of <<key, value>>).  *)
(***************************************************************************)
EXTENDS Integers, Sequences, FiniteSets, TLC

-----------------------------------------------------------------------------
(* JavaScript values *)

JsUndefined == [t |-> "undefined", n |-> 0, s |-> <<>>, m |-> <<>>]
JsNull == [t |-> "null", n |-> 0, s |-> <<>>, m |-> <<>>]
JsTrue == [t |-> "boolean", n |-> 1, s |-> <<>>, m |-> <<>>]
JsFalse == [t |-> "boolean", n |-> 0, s |-> <<>>, m |-> <<>>]
JsNum(k) == [t |-> "number", n |-> k, s |-> <<>>, m |-> <<>>]
JsStr(str) == [t |-> "string", n |-> 0, s |-> str, m |-> <<>>]
JsObj(members) == [t |-> "object", n |-> 0, s |-> <<>>, m |-> members]
JsArr(elems) == [t |-> "array", n |-> 0, s |-> <<>>, m |-> elems]

\* if (v): null, undefined, false, 0 and "" are falsy, everything else truthy
Truthy(v) ==
    CASE v.t = "undefined" -> FALSE
      [] v.t = "null" -> FALSE
      [] v.t = "boolean" -> v.n = 1
      [] v.t = "number" -> v.n # 0
      [] v.t = "string" -> v.s # <<>>
      [] v.t = "nan" -> FALSE
      [] OTHER -> TRUE

RECURSIVE Digits(_)
\* the decimal digits of a natural number
Digits(k) == IF k < 10 THEN <<48 + k>> ELSE Digits(k \div 10) \o <<48 + (k % 10)>>

\* true
StrTrue == <<116, 114, 117, 101>>
\* false
StrFalse == <<102, 97, 108, 115, 101>>
\* null
StrNull == <<110, 117, 108, 108>>
\* undefined
StrUndefined == <<117, 110, 100, 101, 102, 105, 110, 101, 100>>
\* [object Object]
StrObject == <<91, 111, 98, 106, 101, 99, 116, 32, 79, 98, 106, 101, 99, 116, 93>>

RECURSIVE JsToString(_)
RECURSIVE JoinFrom(_, _)
\* Array.prototype.join(','), from element i on
JoinFrom(elems, i) ==
    IF i > Len(elems) THEN <<>>
    ELSE (IF i > 1 THEN <<44>> ELSE <<>>)
         \o (IF elems[i].t \in {"null", "undefined"} THEN <<>> ELSE JsToString(elems[i]))
         \o JoinFrom(elems, i + 1)

\* String(v), as `fullText += v` and `new Error(v)` convert v
JsToString(v) ==
    CASE v.t = "string" -> v.s
      [] v.t = "number" -> IF v.n < 0 THEN <<45>> \o Digits(-v.n) ELSE Digits(v.n)
      [] v.t = "boolean" -> IF v.n = 1 THEN StrTrue ELSE StrFalse
      [] v.t = "null" -> StrNull
      [] v.t = "undefined" -> StrUndefined
      [] v.t = "array" -> JoinFrom(v.m, 1)
      [] OTHER -> StrObject

RECURSIVE Lookup(_, _, _)
\* the value of the last member of an object named key, from member i down
Lookup(members, key, i) ==
    IF i = 0 THEN JsUndefined
    ELSE IF members[i][1] = key THEN members[i][2]
    ELSE Lookup(members, key, i - 1)

\* v.key for a value that is neither null nor undefined
GetProp(v, key) ==
    IF v.t = "object" THEN Lookup(v.m, key, Len(v.m)) ELSE JsUndefined

-----------------------------------------------------------------------------
(* String operations of the read loop *)

LF == 10
ReplacementChar == 65533
WhiteSpace ==
    {9, 10, 11, 12, 13, 32, 160, 5760, 8232, 8233, 8239, 8287, 12288, 65279}
    \cup (8192..8202)

\* !s.trim(): s holds nothing but white space
IsBlank(s) == \A i \in 1..Len(s) : s[i] \in WhiteSpace

IsPrefixOf(p, s) == Len(p) <= Len(s) /\ SubSeq(s, 1, Len(p)) = p

\* s.includes(sub)
Includes(s, sub) ==
    \E i \in 0..(Len(s) - Len(sub)) : SubSeq(s, i + 1, i + Len(sub)) = sub

\* the position of the k-th \n of s; 0 for k = 0, Len(s) + 1 past the last one
NewlineAt(s, k) ==
    LET at == {p \in 1..Len(s) : s[p] = LF}
    IN IF k = 0 THEN 0
       ELSE IF k > Cardinality(at) THEN Len(s) + 1
       ELSE CHOOSE p \in at : Cardinality({q \in at : q < p}) = k - 1

\* s.split('\n'): the segments between the newlines, always at least one, the
\* last one unterminated
SplitLines(s) ==
    [k \in 1..(Cardinality({p \in 1..Len(s) : s[p] = LF}) + 1) |->
       SubSeq(s, NewlineAt(s, k - 1) + 1, NewlineAt(s, k) - 1)]

RECURSIVE ConcatRange(_, _, _)
\* ss[lo] \o ... \o ss[hi], by halves
ConcatRange(ss, lo, hi) ==
    IF lo > hi THEN <<>>
    ELSE IF lo = hi THEN ss[lo]
    ELSE LET mid == (lo + hi) \div 2
         IN ConcatRange(ss, lo, mid) \o ConcatRange(ss, mid + 1, hi)

\* the concatenation of a sequence of strings
Concat(ss) == ConcatRange(ss, 1, Len(ss))

\* another end marker, `[END]`, in place of `[DONE]`
\* [END]
EndSentinel == <<91, 69, 78, 68, 93>>

\* data: 
DataPrefix == <<100, 97, 116, 97, 58, 32>>
\* [DONE]
DoneSentinel == <<91, 68, 79, 78, 69, 93>>
PrefixLen == 6

\* line.slice(6)
Slice6(line) == SubSeq(line, PrefixLen + 1, Len(line))

-----------------------------------------------------------------------------
(* UTF-8: TextEncoder.encode and TextDecoder.decode(value, {stream: true}) *)

\* the UTF-8 bytes of one code point
EncodeChar(c) ==
    IF c < 128 THEN <<c>>
    ELSE IF c < 2048 THEN <<192 + (c \div 64), 128 + (c % 64)>>
    ELSE IF c < 65536
      THEN <<224 + (c \div 4096), 128 + ((c \div 64) % 64), 128 + (c % 64)>>
    ELSE <<240 + (c \div 262144), 128 + ((c \div 4096) % 64),
           128 + ((c \div 64) % 64), 128 + (c % 64)>>

\* TextEncoder.encode(text)
Utf8Encode(text) == Concat([i \in 1..Len(text) |-> EncodeChar(text[i])])

\* the decoder between characters: no code point under construction
DecoderIdle ==
    [cp |-> 0, seen |-> 0, needed |-> 0, lower |-> 128, upper |-> 191,
     bomSeen |-> FALSE]

ByteOrderMark == 65279

\* a byte met while no sequence is open
DecodeLead(b) ==
    CASE b <= 127 -> [st |-> DecoderIdle, out |-> <<b>>]
      [] b >= 194 /\ b <= 223 ->
           [st |-> [DecoderIdle EXCEPT !.needed = 1, !.cp = b % 32], out |-> <<>>]
      [] b >= 224 /\ b <= 239 ->
           [st |-> [DecoderIdle EXCEPT !.needed = 2, !.cp = b % 16,
                                      !.lower = IF b = 224 THEN 160 ELSE 128,
                                      !.upper = IF b = 237 THEN 159 ELSE 191],
            out |-> <<>>]
      [] b >= 240 /\ b <= 244 ->
           [st |-> [DecoderIdle EXCEPT !.needed = 3, !.cp = b % 8,
                                      !.lower = IF b = 240 THEN 144 ELSE 128,
                                      !.upper = IF b = 244 THEN 143 ELSE 191],
            out |-> <<>>]
      [] OTHER -> [st |-> DecoderIdle, out |-> <<ReplacementChar>>]

\* one byte through the UTF-8 decoder: the new state and the code points emitted
Utf8Byte(st, b) ==
    CASE st.needed = 0 -> DecodeLead(b)
      [] b < st.lower \/ b > st.upper ->
           \* the open sequence is broken: U+FFFD, and the byte is read again
           [st |-> DecodeLead(b).st, out |-> <<ReplacementChar>> \o DecodeLead(b).out]
      [] st.seen + 1 = st.needed ->
           [st |-> DecoderIdle, out |-> <<st.cp * 64 + (b % 64)>>]
      [] OTHER ->
           [st |-> [st EXCEPT !.cp = st.cp * 64 + (b % 64), !.seen = st.seen + 1,
                              !.lower = 128, !.upper = 191],
            out |-> <<>>]

\* one byte through the TextDecoder: the new decoder state and the text
\* returned; ignoreBOM is false, so a byte order mark that is the first code
\* point of the stream is dropped
DecodeByte(st, b) ==
    LET r == Utf8Byte(st, b)
    IN [st |-> [r.st EXCEPT !.bomSeen = st.bomSeen \/ r.out # <<>>],
        out |-> IF ~st.bomSeen /\ r.out # <<>> /\ r.out[1] = ByteOrderMark
                THEN Tail(r.out) ELSE r.out]

RECURSIVE DecodeRange(_, _, _, _)
\* bytes[lo..hi] through the decoder in order, the range taken by halves
DecodeRange(st, bytes, lo, hi) ==
    IF lo > hi THEN [st |-> st, out |-> <<>>]
    ELSE IF lo = hi THEN DecodeByte(st, bytes[lo])
    ELSE LET mid == (lo + hi) \div 2
             left == DecodeRange(st, bytes, lo, mid)
         IN \* the test makes TLC evaluate the left half before it enters the
            \* right one (needed is never negative)
            IF left.st.needed < 0 THEN left
            ELSE LET right == DecodeRange(left.st, bytes, mid + 1, hi)
                 IN [st |-> right.st, out |-> left.out \o right.out]

\* decoder.decode(value), without {stream: true}: every chunk is decoded on its
\* own, and an incomplete sequence at its end becomes U+FFFD
DecodeWhole(st, bytes) ==
    LET r == DecodeRange([DecoderIdle EXCEPT !.bomSeen = st.bomSeen], bytes, 1,
                         Len(bytes))
    IN [st |-> [DecoderIdle EXCEPT !.bomSeen = r.st.bomSeen],
        out |-> IF r.st.needed > 0 THEN Append(r.out, ReplacementChar) ELSE r.out]

\* decoder.decode(value, {stream: true}): an incomplete sequence at the end of
\* the chunk stays in the decoder and emits nothing
DecodeStream(st, bytes) == DecodeRange(st, bytes, 1, Len(bytes))

-----------------------------------------------------------------------------
(* JSON.parse, for the literals, integers, strings without escape sequences, *)
(* arrays and objects                                                        *)

JsonWs == {9, 10, 13, 32}
ParseFail == [ok |-> FALSE, v |-> JsUndefined, next |-> 0]
ParseOk(v, next) == [ok |-> TRUE, v |-> v, next |-> next]

\* the first position from i on that holds no white space
SkipWs(s, i) ==
    LET stops == {j \in i..Len(s) : s[j] \notin JsonWs}
    IN IF stops = {} THEN Len(s) + 1 ELSE CHOOSE j \in stops : \A q \in stops : j <= q

\* a string literal whose opening quote is at i: it ends at the next quote and
\* holds no control character (and, in this model, no backslash)
ParseString(s, i) ==
    LET quotes == {j \in (i + 1)..Len(s) : s[j] = 34}
        close == CHOOSE j \in quotes : \A q \in quotes : j <= q
    IN IF quotes = {} THEN ParseFail
       ELSE IF \E j \in (i + 1)..(close - 1) : s[j] < 32 \/ s[j] = 92 THEN ParseFail
       ELSE ParseOk(JsStr(SubSeq(s, i + 1, close - 1)), close + 1)

RECURSIVE ParseDigits(_, _, _)
ParseDigits(s, i, acc) ==
    IF i <= Len(s) /\ s[i] >= 48 /\ s[i] <= 57
    THEN ParseDigits(s, i + 1, acc * 10 + (s[i] - 48))
    ELSE [n |-> acc, next |-> i]

\* an integer literal at i: -?(0|[1-9][0-9]*), no fraction and no exponent
ParseNumber(s, i) ==
    LET neg == s[i] = 45
        j == IF neg THEN i + 1 ELSE i
        d == ParseDigits(s, j, 0)
    IN CASE d.next = j -> ParseFail
         [] s[j] = 48 /\ d.next > j + 1 -> ParseFail
         [] d.next <= Len(s) /\ s[d.next] \in {46, 69, 101} -> ParseFail
         [] OTHER -> ParseOk(JsNum(IF neg THEN -d.n ELSE d.n), d.next)

ParseLiteral(s, i, word, v) ==
    IF i + Len(word) - 1 <= Len(s) /\ SubSeq(s, i, i + Len(word) - 1) = word
    THEN ParseOk(v, i + Len(word))
    ELSE ParseFail

RECURSIVE ParseValue(_, _)
RECURSIVE ParseMembers(_, _, _)
RECURSIVE ParseElements(_, _, _)

\* the members of an object, i at the first key
ParseMembers(s, i, acc) ==
    LET k == ParseString(s, i)
        c == SkipWs(s, k.next)
        v == ParseValue(s, SkipWs(s, c + 1))
        e == SkipWs(s, v.next)
        mem == Append(acc, <<k.v.s, v.v>>)
        good == /\ i <= Len(s) /\ s[i] = 34 /\ k.ok /\ c <= Len(s) /\ s[c] = 58
                /\ v.ok /\ e <= Len(s)
    IN CASE ~good -> ParseFail
         [] s[e] = 125 -> ParseOk(JsObj(mem), e + 1)
         [] s[e] = 44 -> ParseMembers(s, SkipWs(s, e + 1), mem)
         [] OTHER -> ParseFail

\* the elements of an array, i at the first element
ParseElements(s, i, acc) ==
    LET v == ParseValue(s, i)
        e == SkipWs(s, v.next)
        els == Append(acc, v.v)
    IN CASE ~(v.ok /\ e <= Len(s)) -> ParseFail
         [] s[e] = 93 -> ParseOk(JsArr(els), e + 1)
         [] s[e] = 44 -> ParseElements(s, SkipWs(s, e + 1), els)
         [] OTHER -> ParseFail

\* the value that starts at i
ParseValue(s, i) ==
    LET j == SkipWs(s, i + 1)
    IN CASE i > Len(s) -> ParseFail
         [] s[i] = 34 -> ParseString(s, i)
         [] s[i] = 123 -> IF j <= Len(s) /\ s[j] = 125 THEN ParseOk(JsObj(<<>>), j + 1)
                          ELSE ParseMembers(s, j, <<>>)
         [] s[i] = 91 -> IF j <= Len(s) /\ s[j] = 93 THEN ParseOk(JsArr(<<>>), j + 1)
                         ELSE ParseElements(s, j, <<>>)
         [] s[i] = 116 -> ParseLiteral(s, i, StrTrue, JsTrue)
         [] s[i] = 102 -> ParseLiteral(s, i, StrFalse, JsFalse)
         [] s[i] = 110 -> ParseLiteral(s, i, StrNull, JsNull)
         [] s[i] = 45 \/ (s[i] >= 48 /\ s[i] <= 57) -> ParseNumber(s, i)
         [] OTHER -> ParseFail

\* JSON.parse(s): ok = FALSE stands for the SyntaxError it throws
JSONParse(s) ==
    LET r == ParseValue(s, SkipWs(s, 1))
    IN IF r.ok /\ SkipWs(s, r.next) > Len(s)
       THEN [ok |-> TRUE, v |-> r.v]
       ELSE [ok |-> FALSE, v |-> JsUndefined]

-----
(* Handling one line, and the for-loop over the lines of a chunk *)

\* content
KeyContent == <<99, 111, 110, 116, 101, 110, 116>>
\* chat_id
KeyChatId == <<99, 104, 97, 116, 95, 105, 100>>
\* error
KeyError == <<101, 114, 114, 111, 114>>
\* Cannot read properties of null (reading 'content')
NullContentMessage == <<67, 97, 110, 110, 111, 116, 32, 114, 101, 97, 100, 32, 112, 114, 111, 112, 101, 114, 116, 105, 101, 115, 32, 111, 102, 32, 110, 117, 108, 108, 32, 40, 114, 101, 97, 100, 105, 110, 103, 32, 39, 99, 111, 110, 116, 101, 110, 116, 39, 41>>

\* updateBotMessage(botMessageContainer, delta) after `fullText += delta`: the
\* sink is given the delta alone
SinkDeltaOnly(L, delta) ==
    [L EXCEPT !.fullText = L.fullText \o delta, !.sink = Append(L.sink, delta)]

\* `fullText = delta` in place of `fullText += delta`
AssignDelta(L, delta) ==
    [L EXCEPT !.fullText = delta, !.sink = Append(L.sink, delta)]

\* updateBotMessage(botMessageContainer, fullText) after `fullText += delta`
AppendDelta(L, delta) ==
    [L EXCEPT !.fullText = L.fullText \o delta,
              !.sink = Append(L.sink, L.fullText \o delta)]

\* throw: the loop state with the exception that leaves the loop
Throw(L, name, message) ==
    [L EXCEPT !.thrown = TRUE, !.name = name, !.message = message]

\* that body without the `else if (json.chat_id)` branch, whatever the script
HandleJsonNoChatId(L, json, hasChatId) ==
    CASE json.t \in {"null", "undefined"} ->
           Throw(L, "TypeError", NullContentMessage)
      [] Truthy(GetProp(json, KeyContent)) ->
           AppendDelta(L, JsToString(GetProp(json, KeyContent)))
      [] Truthy(GetProp(json, KeyError)) ->
           Throw(L, "Error", JsToString(GetProp(json, KeyError)))
      [] OTHER -> L

\* the body of `try { const json = JSON.parse(data); ... }` for a parsed payload
HandleJson(L, json, hasChatId) ==
    CASE json.t \in {"null", "undefined"} ->
           Throw(L, "TypeError", NullContentMessage)
      [] Truthy(GetProp(json, KeyContent)) ->
           AppendDelta(L, JsToString(GetProp(json, KeyContent)))
      [] hasChatId /\ Truthy(GetProp(json, KeyChatId)) ->
           [L EXCEPT !.chatId = GetProp(json, KeyChatId), !.writes = L.writes + 1]
      [] Truthy(GetProp(json, KeyError)) ->
           Throw(L, "Error", JsToString(GetProp(json, KeyError)))
      [] OTHER -> L

\* a catch (e) that rethrows the SyntaxError as it does the other exceptions
RethrowSyntaxError(L, data) == Throw(L, "SyntaxError", data)

\* the catch (e) of that try, entered with a SyntaxError: plain text
HandleSyntaxError(L, data) ==
    IF ~IsBlank(data) /\ data # DoneSentinel THEN AppendDelta(L, data) ELSE L

\* s.trim()
TrimText(s) ==
    LET inked == {i \in 1..Len(s) : s[i] \notin WhiteSpace}
    IN IF inked = {} THEN <<>>
       ELSE SubSeq(s, CHOOSE i \in inked : \A j \in inked : i <= j,
                      CHOOSE i \in inked : \A j \in inked : j <= i)

\* an iteration that appends line.trim() for a line without the prefix
HandleLineTrimsBare(L, line, hasChatId) ==
    IF IsPrefixOf(DataPrefix, line)
    THEN LET data == Slice6(line)
         IN IF data = DoneSentinel THEN L
            ELSE LET p == JSONParse(data)
                 IN IF p.ok THEN HandleJson(L, p.v, hasChatId)
                    ELSE HandleSyntaxError(L, data)
    ELSE IF ~IsBlank(line) THEN AppendDelta(L, TrimText(line))
    ELSE L

\* one iteration of `for (const line of lines)`; hasChatId: the loop has the
\* `else if (json.chat_id)` branch (markdown.js has it, script.js has not)
HandleLine(L, line, hasChatId) ==
    IF IsPrefixOf(DataPrefix, line)
    THEN LET data == Slice6(line)
         IN IF data = DoneSentinel THEN L
            ELSE LET p == JSONParse(data)
                 IN IF p.ok THEN HandleJson(L, p.v, hasChatId)
                    ELSE HandleSyntaxError(L, data)
    ELSE IF ~IsBlank(line) THEN AppendDelta(L, line)
    ELSE L

RECURSIVE ProcessLinesUntilDone(_, _, _, _)
\* a for-loop that the sentinel ends: `break` in place of `continue`
ProcessLinesUntilDone(L, lines, i, hasChatId) ==
    IF i > Len(lines) \/ lines[i] = DataPrefix \o DoneSentinel THEN L
    ELSE LET r == HandleLine(L, lines[i], hasChatId)
         IN IF r.thrown THEN r
            ELSE ProcessLinesUntilDone([r EXCEPT !.handled = r.handled + 1], lines,
                                       i + 1, hasChatId)

RECURSIVE ProcessLines(_, _, _, _)
\* `for (const line of lines)` from line i on: an exception ends the loop;
\* handled counts the lines whose iteration ran to its end
ProcessLines(L, lines, i, hasChatId) ==
    IF i > Len(lines) THEN L
    ELSE LET r == HandleLine(L, lines[i], hasChatId)
         IN IF r.thrown THEN r
            ELSE ProcessLines([r EXCEPT !.handled = r.handled + 1], lines, i + 1,
                              hasChatId)

\* `buffer = ''` in place of `buffer = lines.pop() || ''`
PopNothing(lines) == <<>>

\* lines.pop() || '': the last segment stays in the buffer
PopLast(lines) == lines[Len(lines)]

\* an iteration that handles the complete lines and leaves them in the buffer
OnChunkKeepsLines(L, value, hasChatId) ==
    LET d == DecodeStream(L.decoder, value)
        lines == SplitLines(L.buffer \o d.out)
        kept == [L EXCEPT !.decoder = d.st, !.decoded = L.decoded \o d.out,
                          !.buffer = L.buffer \o d.out]
    IN ProcessLines(kept, SubSeq(lines, 1, Len(lines) - 1), 1, hasChatId)

\* one iteration of `while (true)` with done = false and value = the chunk
OnChunk(L, value, hasChatId) ==
    LET d == DecodeStream(L.decoder, value)
        lines == SplitLines(L.buffer \o d.out)
        kept == [L EXCEPT !.decoder = d.st, !.decoded = L.decoded \o d.out,
                          !.buffer = PopLast(lines)]
    IN ProcessLines(kept, SubSeq(lines, 1, Len(lines) - 1), 1, hasChatId)

\* an iteration with done = true that only breaks
BreakOnDone(L, hasChatId) == L

\* an iteration with done = true that appends what is left as it is
OnDoneAppendsRest(L, hasChatId) ==
    IF ~IsBlank(L.buffer) THEN AppendDelta(L, L.buffer) ELSE L

\* the iteration with done = true: what is left in the buffer is handled, break
OnDone(L, hasChatId) ==
    IF ~IsBlank(L.buffer)
    THEN ProcessLines(L, SplitLines(L.buffer), 1, hasChatId)
    ELSE L

\* `let fullText = ''; const decoder = new TextDecoder(); let buffer = ''`
LoopStart(chatId, writes) ==
    [decoder |-> DecoderIdle, decoded |-> <<>>, buffer |-> <<>>, fullText |-> <<>>,
     sink |-> <<>>, chatId |-> chatId, writes |-> writes, handled |-> 0,
     thrown |-> FALSE, name |-> "", message |-> <<>>]

-----------------------------------------------------------------------------
(* The catch blocks: what the user is shown when a send fails *)

\* Неизвестная ошибка
UnknownError == <<1053, 1077, 1080, 1079, 1074, 1077, 1089, 1090, 1085, 1072, 1103, 32, 1086, 1096, 1080, 1073, 1082, 1072>>
\* Failed to fetch
FailedToFetch == <<70, 97, 105, 108, 101, 100, 32, 116, 111, 32, 102, 101, 116, 99, 104>>
\* NetworkError
NetworkError == <<78, 101, 116, 119, 111, 114, 107, 69, 114, 114, 111, 114>>
\* API key not configured
ApiKeyNotConfigured == <<65, 80, 73, 32, 107, 101, 121, 32, 110, 111, 116, 32, 99, 111, 110, 102, 105, 103, 117, 114, 101, 100>>
\* ❌ Ошибка подключения к серверу.\n\nПроверьте:\n• Правильно ли настроен API_BASE_URL в telegram-config.js\n• Доступен ли backend сервер\n• Нет ли проблем с сетью\n\nТехническая ошибка: 
NetworkErrorHead == <<10060, 32, 1054, 1096, 1080, 1073, 1082, 1072, 32, 1087, 1086, 1076, 1082, 1083, 1102, 1095, 1077, 1085, 1080, 1103, 32, 1082, 32, 1089, 1077, 1088, 1074, 1077, 1088, 1091, 46, 10, 10, 1055, 1088, 1086, 1074, 1077, 1088, 1100, 1090, 1077, 58, 10, 8226, 32, 1055, 1088, 1072, 1074, 1080, 1083, 1100, 1085, 1086, 32, 1083, 1080, 32, 1085, 1072, 1089, 1090, 1088, 1086, 1077, 1085, 32, 65, 80, 73, 95, 66, 65, 83, 69, 95, 85, 82, 76, 32, 1074, 32, 116, 101, 108, 101, 103, 114, 97, 109, 45, 99, 111, 110, 102, 105, 103, 46, 106, 115, 10, 8226, 32, 1044, 1086, 1089, 1090, 1091, 1087, 1077, 1085, 32, 1083, 1080, 32, 98, 97, 99, 107, 101, 110, 100, 32, 1089, 1077, 1088, 1074, 1077, 1088, 10, 8226, 32, 1053, 1077, 1090, 32, 1083, 1080, 32, 1087, 1088, 1086, 1073, 1083, 1077, 1084, 32, 1089, 32, 1089, 1077, 1090, 1100, 1102, 10, 10, 1058, 1077, 1093, 1085, 1080, 1095, 1077, 1089, 1082, 1072, 1103, 32, 1086, 1096, 1080, 1073, 1082, 1072, 58, 32>>
\* ❌ API ключ не настроен.\n\nДля использования 
ConfigErrorHead == <<10060, 32, 65, 80, 73, 32, 1082, 1083, 1102, 1095, 32, 1085, 1077, 32, 1085, 1072, 1089, 1090, 1088, 1086, 1077, 1085, 46, 10, 10, 1044, 1083, 1103, 32, 1080, 1089, 1087, 1086, 1083, 1100, 1079, 1086, 1074, 1072, 1085, 1080, 1103, 32>>
\*  необходимо:\n• Добавить OPENAI_API_KEY в переменные окружения Railway\n• Перезапустить сервер после добавления ключа\n\nТехническая ошибка: 
ConfigErrorBody == <<32, 1085, 1077, 1086, 1073, 1093, 1086, 1076, 1080, 1084, 1086, 58, 10, 8226, 32, 1044, 1086, 1073, 1072, 1074, 1080, 1090, 1100, 32, 79, 80, 69, 78, 65, 73, 95, 65, 80, 73, 95, 75, 69, 89, 32, 1074, 32, 1087, 1077, 1088, 1077, 1084, 1077, 1085, 1085, 1099, 1077, 32, 1086, 1082, 1088, 1091, 1078, 1077, 1085, 1080, 1103, 32, 82, 97, 105, 108, 119, 97, 121, 10, 8226, 32, 1055, 1077, 1088, 1077, 1079, 1072, 1087, 1091, 1089, 1090, 1080, 1090, 1100, 32, 1089, 1077, 1088, 1074, 1077, 1088, 32, 1087, 1086, 1089, 1083, 1077, 32, 1076, 1086, 1073, 1072, 1074, 1083, 1077, 1085, 1080, 1103, 32, 1082, 1083, 1102, 1095, 1072, 10, 10, 1058, 1077, 1093, 1085, 1080, 1095, 1077, 1089, 1082, 1072, 1103, 32, 1086, 1096, 1080, 1073, 1082, 1072, 58, 32>>
\* ❌ Произошла ошибка при обращении к API.\n\nОшибка: 
ApiErrorHead == <<10060, 32, 1055, 1088, 1086, 1080, 1079, 1086, 1096, 1083, 1072, 32, 1086, 1096, 1080, 1073, 1082, 1072, 32, 1087, 1088, 1080, 32, 1086, 1073, 1088, 1072, 1097, 1077, 1085, 1080, 1080, 32, 1082, 32, 65, 80, 73, 46, 10, 10, 1054, 1096, 1080, 1073, 1082, 1072, 58, 32>>
\* \n\nПроверьте логи сервера для получения дополнительной информации.
ApiErrorTail == <<10, 10, 1055, 1088, 1086, 1074, 1077, 1088, 1100, 1090, 1077, 32, 1083, 1086, 1075, 1080, 32, 1089, 1077, 1088, 1074, 1077, 1088, 1072, 32, 1076, 1083, 1103, 32, 1087, 1086, 1083, 1091, 1095, 1077, 1085, 1080, 1103, 32, 1076, 1086, 1087, 1086, 1083, 1085, 1080, 1090, 1077, 1083, 1100, 1085, 1086, 1081, 32, 1080, 1085, 1092, 1086, 1088, 1084, 1072, 1094, 1080, 1080, 46>>
\* Извините, произошла ошибка. Попробуйте еще раз.
GenericError == <<1048, 1079, 1074, 1080, 1085, 1080, 1090, 1077, 44, 32, 1087, 1088, 1086, 1080, 1079, 1086, 1096, 1083, 1072, 32, 1086, 1096, 1080, 1073, 1082, 1072, 46, 32, 1055, 1086, 1087, 1088, 1086, 1073, 1091, 1081, 1090, 1077, 32, 1077, 1097, 1077, 32, 1088, 1072, 1079, 46>>

\* userFriendlyError of streamAIResponse's catch, with currentProvider 'openai'
\* and provider = providers.openai.name
UserFriendlyError(provider, message) ==
    LET errorMessage == IF message = <<>> THEN UnknownError ELSE message
    IN IF Includes(errorMessage, FailedToFetch) \/ Includes(errorMessage, NetworkError)
       THEN NetworkErrorHead \o errorMessage
       ELSE IF Includes(errorMessage, ApiKeyNotConfigured)
         THEN ConfigErrorHead \o provider \o ConfigErrorBody \o errorMessage
       ELSE ApiErrorHead \o errorMessage \o ApiErrorTail

\* the text rendered for an error thrown on a path: streamAIResponse catches it
\* itself, sendMessageWithFiles rethrows it to sendMessage's catch
ErrorText(p, provider, message) ==
    IF p = "stream" THEN UserFriendlyError(provider, message) ELSE GenericError

-----------------------------------------------------------------------------
(* The responses the backend is taken to send *)

\* data: {"content":"hi"}
LineContent == <<100, 97, 116, 97, 58, 32, 123, 34, 99, 111, 110, 116, 101, 110, 116, 34, 58, 34, 104, 105, 34, 125>>
\* data: {"content":"Я€😀"}
LineContentRu == <<100, 97, 116, 97, 58, 32, 123, 34, 99, 111, 110, 116, 101, 110, 116, 34, 58, 34, 1071, 8364, 128512, 34, 125>>
\* data: {"chat_id":42}
LineChatId == <<100, 97, 116, 97, 58, 32, 123, 34, 99, 104, 97, 116, 95, 105, 100, 34, 58, 52, 50, 125>>
\* data: {"chat_id":0}
LineChatIdZero == <<100, 97, 116, 97, 58, 32, 123, 34, 99, 104, 97, 116, 95, 105, 100, 34, 58, 48, 125>>
\* data: {"error":"quota"}
LineError == <<100, 97, 116, 97, 58, 32, 123, 34, 101, 114, 114, 111, 114, 34, 58, 34, 113, 117, 111, 116, 97, 34, 125>>
\* data: {"content":"x","error":"e"}
LineContentError == <<100, 97, 116, 97, 58, 32, 123, 34, 99, 111, 110, 116, 101, 110, 116, 34, 58, 34, 120, 34, 44, 34, 101, 114, 114, 111, 114, 34, 58, 34, 101, 34, 125>>
\* data: [DONE]
LineDone == <<100, 97, 116, 97, 58, 32, 91, 68, 79, 78, 69, 93>>
\* data: [DONE]\r
LineDoneCR == <<100, 97, 116, 97, 58, 32, 91, 68, 79, 78, 69, 93, 13>>
\* data: yo
LinePlain == <<100, 97, 116, 97, 58, 32, 121, 111>>
\* data: null
LineNull == <<100, 97, 116, 97, 58, 32, 110, 117, 108, 108>>
\* data: {}
LineEmptyObject == <<100, 97, 116, 97, 58, 32, 123, 125>>
\* k
LineBare == <<107>>
\* 
LineBlank == <<>>
\* data: {"error":""}
LineErrorEmpty == <<100, 97, 116, 97, 58, 32, 123, 34, 101, 114, 114, 111, 114, 34, 58, 34, 34, 125>>
\* ﻿data: {"content":"hi"}
LineBomContent == <<65279, 100, 97, 116, 97, 58, 32, 123, 34, 99, 111, 110, 116, 101, 110, 116, 34, 58, 34, 104, 105, 34, 125>>
\* data: {"error":"NetworkError"}
LineErrorNet == <<100, 97, 116, 97, 58, 32, 123, 34, 101, 114, 114, 111, 114, 34, 58, 34, 78, 101, 116, 119, 111, 114, 107, 69, 114, 114, 111, 114, 34, 125>>
\*  k\r
LineSpaced == <<32, 107, 13>>
\*  U+0009 
LineSpaces == <<32, 9>>

LineMenu ==
    {LineContent, LineContentRu, LineChatId, LineChatIdZero, LineError,
     LineContentError, LineDone, LineDoneCR, LinePlain, LineNull, LineEmptyObject,
     LineBare, LineBlank}

\* the event lines of one response: one or two lines of the menu, or a delta,
\* a server error and a delta after it, or a delta and an error without
\* message, or a delta behind a byte order mark, or a server error whose
\* message reads like a network failure, or a delta, a line of white space and
\* a bare line with white space around its text
LinesMenu ==
    {<<a>> : a \in LineMenu} \cup {<<a, b>> : a \in LineMenu, b \in LineMenu}
    \cup {<<LineContent, LineError, LineContent>>, <<LineContent, LineErrorEmpty>>,
          <<LineBomContent>>, <<LineErrorNet>>, <<LineContent, LineSpaces, LineSpaced>>}

\* the text of a response: its lines, each ended by \n, the last one only if
\* terminated
BodyText(lines, terminated) ==
    Concat([i \in 1..Len(lines) |->
              IF i < Len(lines) \/ terminated THEN Append(lines[i], LF) ELSE lines[i]])

\* 7
HeaderSeven == <<55>>
\* response.headers.get('X-Chat-Id'): null when the header is absent
HeaderMenu == {JsNull, JsStr(HeaderSeven)}

\* the message of the TypeError a broken body stream rejects read() with
\* network error
TransportMessages == {<<110, 101, 116, 119, 111, 114, 107, 32, 101, 114, 114, 111, 114>>}

\* `HTTP error! status: ${response.status}` for a 500
\* HTTP error! status: 500
HttpStatusMessage == <<72, 84, 84, 80, 32, 101, 114, 114, 111, 114, 33, 32, 115, 116, 97, 116, 117, 115, 58, 32, 53, 48, 48>>
\* what api.streamMessage throws for a response that is not ok: the status
\* line, or the error the server put in the body
HttpErrorMenu == {HttpStatusMessage, ApiKeyNotConfigured}

\* Invalid response
InvalidResponse == <<73, 110, 118, 97, 108, 105, 100, 32, 114, 101, 115, 112, 111, 110, 115, 101>>
\* Unexpected token < in JSON at position 0
NotJsonMessage == <<85, 110, 101, 120, 112, 101, 99, 116, 101, 100, 32, 116, 111, 107, 101, 110, 32, 60, 32, 105, 110, 32, 74, 83, 79, 78, 32, 97, 116, 32, 112, 111, 115, 105, 116, 105, 111, 110, 32, 48>>

\* the results of the non-streaming request: {success, data: {response, chat_id}}
ResultMenu ==
\* hi
    {[success |-> JsTrue, response |-> JsStr(<<104, 105>>), chat_id |-> JsNum(42)],
\* hi
     [success |-> JsTrue, response |-> JsStr(<<104, 105>>), chat_id |-> JsUndefined],
     [success |-> JsTrue, response |-> JsStr(<<>>), chat_id |-> JsUndefined],
     [success |-> JsFalse, response |-> JsUndefined, chat_id |-> JsUndefined]}

\* the responses looked at when sends follow one another
SendsLinesMenu == {<<LineBare>>, <<LineChatId>>, <<LinePlain, LineError>>}

\* the chats the user picks in the sidebar
ChatMenu == {5}

\* the number of sends looked at when sends follow one another
MaxSends == 2

\* the files the user picks, and how many may be attached at a time
FileMenu == {1, 2}
MaxFiles == 2

\* the answers of api.sendMessage to part_004; the last one has no text
LegacyResultMenu ==
    ResultMenu \cup {[success |-> JsTrue, response |-> JsUndefined,
                       chat_id |-> JsUndefined]}

\* one of the mock responses of simulateAIResponse
\* Анализирую ваши операционные показатели...
MockResponse == <<1040, 1085, 1072, 1083, 1080, 1079, 1080, 1088, 1091, 1102, 32, 1074, 1072, 1096, 1080, 32, 1086, 1087, 1077, 1088, 1072, 1094, 1080, 1086, 1085, 1085, 1099, 1077, 32, 1087, 1086, 1082, 1072, 1079, 1072, 1090, 1077, 1083, 1080, 46, 46, 46>>

\* the longest chunk the transport delivers, unless it delivers all the rest
MaxChunkLen == 4

ChunkLens(rest) == {k \in 1..rest : k <= MaxChunkLen \/ k = rest}

JsNaN == [t |-> "nan", n |-> 0, s |-> <<>>, m |-> <<>>]

\* parseInt(s) of a header value: its leading digits, NaN when there is none
ParseInt(s) ==
    LET d == ParseDigits(s, 1, 0) IN IF d.next = 1 THEN JsNaN ELSE JsNum(d.n)

-----------------------------------------------------------------------------
(* State *)

VARIABLES
    impl,           \* the script that runs: "markdown" (markdown.js), "script"
                    \* (script.js) or "legacy" (part_004)
    pc,             \* "idle", "fetching", "simulating", "reading", "fallback",
                    \* "completed", "failed"
    path,           \* "stream" (streamAIResponse) or "files" (sendMessageWithFiles)
    mode,           \* how the response is taken: "none", "stream" or "fallback"
    sent,           \* the text of the response body, as the backend wrote it
    body,           \* the bytes of the response body
    pos,            \* how many bytes of body reader.read() has delivered
    sourceDone,     \* reader.read() has answered done
    decoder,        \* the TextDecoder's state
    decoded,        \* everything the decoder has returned so far
    buffer,         \* let buffer
    fullText,       \* let fullText
    sinkCalls,      \* the texts the loop has passed to updateBotMessage
    shown,          \* every text passed to updateBotMessage for this response
    currentChatId,  \* let currentChatId
    chatWrites,     \* assignments to currentChatId made for this response
    chatSetBy,      \* who assigned currentChatId last since the send began
    handled,        \* lines whose loop iteration ran to its end
    error,          \* the exception that ended the send, if any
    cuts,           \* whether a chunk has ended inside a character / a line
    requests,       \* HTTP requests issued for this send
    sends,          \* sends accepted so far
    previous,       \* how the send before this one ended, and whether its buffer
                    \* and fullText held anything
    hasText,        \* messageInput.value.trim() is not empty
    selectedFiles,  \* let selectedFiles
    isProcessing,   \* let isProcessing
    sendDisabled,   \* sendButton.disabled
    transmitted,    \* the files put into the request of this send
    pending,        \* the files selected while this send is in progress
    inflight        \* calls of sendMessage between isProcessing = true and finally

vars == <<impl, pc, path, mode, sent, body, pos, sourceDone, decoder, decoded, buffer,
          fullText, sinkCalls, shown, currentChatId, chatWrites, chatSetBy, handled,
          error, cuts, requests, sends, previous, hasText, selectedFiles,
          isProcessing, sendDisabled, transmitted, pending, inflight>>

NoError == [origin |-> "none", name |-> "", message |-> <<>>]
NoCuts == [inChar |-> FALSE, inLine |-> FALSE]

\* the read loop's locals and the chat id, as one record
Loop ==
    [decoder |-> decoder, decoded |-> decoded, buffer |-> buffer,
     fullText |-> fullText, sink |-> sinkCalls, chatId |-> currentChatId,
     writes |-> chatWrites, handled |-> handled, thrown |-> FALSE, name |-> "",
     message |-> <<>>]

\* providers.openai.name
\* OpenAI | GPT-4
ProviderName == IF impl = "markdown" THEN <<79, 112, 101, 110, 65, 73>> ELSE <<71, 80, 84, 45, 52>>

\* the loop with the `else if (json.chat_id)` branch
HasChatIdBranch == impl = "markdown"

\* the page of script i before the first send, with what the user has put
\* into the input so far: handleInputChange has run for the text, and
\* handleFileSelect leaves the button as it is
Loaded(i) ==
    /\ impl = i
    /\ hasText \in BOOLEAN
    /\ selectedFiles \in IF i = "legacy" THEN {<<>>} ELSE {<<>>, <<1>>}
    /\ sendDisabled \in IF hasText THEN {FALSE} ELSE BOOLEAN
    /\ isProcessing = FALSE
    /\ transmitted = <<>>
    /\ pending = <<>>
    /\ inflight = 0
    /\ pc = "idle"
    /\ path = "none"
    /\ mode = "none"
    /\ sent = <<>>
    /\ body = <<>>
    /\ pos = 0
    /\ sourceDone = FALSE
    /\ decoder = DecoderIdle
    /\ decoded = <<>>
    /\ buffer = <<>>
    /\ fullText = <<>>
    /\ sinkCalls = <<>>
    /\ shown = <<>>
    /\ currentChatId = JsNull
    /\ chatWrites = 0
    /\ chatSetBy = "none"
    /\ handled = 0
    /\ error = NoError
    /\ cuts = NoCuts
    /\ requests = 0
    /\ sends = 0
    /\ previous = [pc |-> "idle", partial |-> FALSE, text |-> FALSE]

Init == \E i \in {"markdown", "script"} : Loaded(i)

\* the same with part_004, the page without streaming
InitUi == \E i \in {"markdown", "script", "legacy"} : Loaded(i)

-----------------------------------------------------------------------------
(* Actions *)

\* the send goes on: nothing of the input area changes
Busy == UNCHANGED <<selectedFiles, pending, isProcessing, sendDisabled, inflight>>

\* the rest of sendMessage once the response has ended: script.js empties
\* selectedFiles after a send with files that did not throw; the finally
\* block releases isProcessing and sets the button from the input
\* a finally block that leaves isProcessing as it is
FinallyKeepsProcessing(ok) ==
    /\ selectedFiles' = IF impl = "script" /\ path = "files" /\ ok THEN <<>>
                        ELSE selectedFiles
    /\ pending' = <<>>
    /\ isProcessing' = isProcessing
    /\ sendDisabled' = (~hasText /\ (impl = "legacy" \/ selectedFiles' = <<>>))
    /\ inflight' = inflight - 1

Finally(ok) ==
    /\ selectedFiles' = IF impl = "script" /\ path = "files" /\ ok THEN <<>>
                        ELSE selectedFiles
    /\ pending' = <<>>
    /\ isProcessing' = FALSE
    /\ sendDisabled' = (~hasText /\ (impl = "legacy" \/ selectedFiles' = <<>>))
    /\ inflight' = inflight - 1

\* a sendMessage that does not look at isProcessing
SendMessageUnguarded(hasFiles, limit) ==
    /\ hasFiles = (selectedFiles # <<>>)
    /\ hasText \/ hasFiles
    /\ sends < limit
    /\ sends' = sends + 1
    /\ hasText' = FALSE
    /\ selectedFiles' = IF impl = "markdown" THEN <<>> ELSE selectedFiles
    /\ transmitted' = selectedFiles
    /\ pending' = <<>>
    /\ isProcessing' = TRUE
    /\ sendDisabled' = TRUE
    /\ inflight' = inflight + 1
    /\ pc' = IF impl = "legacy" THEN "simulating" ELSE "fetching"
    /\ path' = IF hasFiles THEN "files" ELSE "stream"
    /\ mode' = "none"
    /\ requests' = 1
    /\ shown' = <<>>
    /\ sent' = <<>>
    /\ body' = <<>>
    /\ pos' = 0
    /\ sourceDone' = FALSE
    /\ decoded' = <<>>
    /\ sinkCalls' = <<>>
    /\ chatWrites' = 0
    /\ handled' = 0
    /\ error' = NoError
    /\ cuts' = NoCuts
    /\ previous' = [pc |-> pc, partial |-> buffer # <<>>, text |-> fullText # <<>>]
    /\ chatSetBy' = "none"
    /\ UNCHANGED <<impl, decoder, buffer, fullText, currentChatId>>

\* sendMessage up to its await, while no send is in progress: the bot message
\* container is created (it shows the typing indicator) and the request is
\* issued. The locals of an earlier call are out of reach; what they held is
\* left as it was. limit: the number of sends looked at
SendMessage(hasFiles, limit) ==
    /\ hasFiles = (selectedFiles # <<>>)
    /\ hasText \/ hasFiles
    /\ ~isProcessing
    /\ sends < limit
    /\ sends' = sends + 1
    /\ hasText' = FALSE
    /\ selectedFiles' = IF impl = "markdown" THEN <<>> ELSE selectedFiles
    /\ transmitted' = selectedFiles
    /\ pending' = <<>>
    /\ isProcessing' = TRUE
    /\ sendDisabled' = TRUE
    /\ inflight' = inflight + 1
    /\ pc' = IF impl = "legacy" THEN "simulating" ELSE "fetching"
    /\ path' = IF hasFiles THEN "files" ELSE "stream"
    /\ mode' = "none"
    /\ requests' = 1
    /\ shown' = <<>>
    /\ sent' = <<>>
    /\ body' = <<>>
    /\ pos' = 0
    /\ sourceDone' = FALSE
    /\ decoded' = <<>>
    /\ sinkCalls' = <<>>
    /\ chatWrites' = 0
    /\ handled' = 0
    /\ error' = NoError
    /\ cuts' = NoCuts
    /\ previous' = [pc |-> pc, partial |-> buffer # <<>>, text |-> fullText # <<>>]
    /\ chatSetBy' = "none"
    /\ UNCHANGED <<impl, decoder, buffer, fullText, currentChatId>>

\* the X-Chat-Id header of a response that is ok: markdown.js assigns
\* parseInt of it to currentChatId
ReadHeader(header) ==
    LET fromHeader == impl = "markdown" /\ Truthy(header)
    IN /\ currentChatId' = IF fromHeader THEN ParseInt(header.s) ELSE currentChatId
       /\ chatWrites' = IF fromHeader THEN 1 ELSE 0
       /\ chatSetBy' = IF fromHeader THEN "stream" ELSE chatSetBy

\* a response whose loop goes on with the buffer and the text of the call before
RespondKeepsLocals(header, lines, terminated) ==
    /\ pc = "fetching"
    /\ ReadHeader(header)
    /\ decoder' = DecoderIdle
    /\ decoded' = <<>>
    /\ sinkCalls' = <<>>
    /\ handled' = 0
    /\ sent' = BodyText(lines, terminated)
    /\ body' = Utf8Encode(BodyText(lines, terminated))
    /\ pos' = 0
    /\ sourceDone' = FALSE
    /\ pc' = "reading"
    /\ mode' = "stream"
    /\ Busy
    /\ UNCHANGED <<impl, previous, hasText, transmitted, buffer, fullText, path,
                   shown, error, cuts, requests, sends>>

\* the request resolves with a streamable body: the X-Chat-Id header is read
\* (markdown.js only) and the loop's locals are created
Respond(header, lines, terminated) ==
    /\ pc = "fetching"
    /\ ReadHeader(header)
    /\ LET L == LoopStart(currentChatId, 0)
       IN /\ decoder' = L.decoder
          /\ decoded' = L.decoded
          /\ buffer' = L.buffer
          /\ fullText' = L.fullText
          /\ sinkCalls' = L.sink
          /\ handled' = L.handled
    /\ sent' = BodyText(lines, terminated)
    /\ body' = Utf8Encode(BodyText(lines, terminated))
    /\ pos' = 0
    /\ sourceDone' = FALSE
    /\ pc' = "reading"
    /\ mode' = "stream"
    /\ Busy
    /\ UNCHANGED <<impl, previous, hasText, transmitted, path, shown, error, cuts,
                   requests, sends>>

\* an error that passes every catch: nothing is rendered for it
FailUnrendered(origin, name, message) ==
    /\ pc' = "failed"
    /\ error' = [origin |-> origin, name |-> name, message |-> message]
    /\ shown' = shown
    /\ Finally(FALSE)

\* the error reaches a catch that renders it: streamAIResponse's own, or
\* sendMessage's when sendMessageWithFiles rethrows
Fail(origin, name, message) ==
    /\ pc' = "failed"
    /\ error' = [origin |-> origin, name |-> name, message |-> message]
    /\ shown' = Append(shown, ErrorText(path, ProviderName, message))
    /\ Finally(FALSE)

\* what a loop iteration leaves behind: the locals, and either the loop goes on
\* (or ends, when done) or the exception reaches the catch, which renders it
Settle(L, done) ==
    /\ decoder' = L.decoder
    /\ decoded' = L.decoded
    /\ buffer' = L.buffer
    /\ fullText' = L.fullText
    /\ sinkCalls' = L.sink
    /\ currentChatId' = L.chatId
    /\ chatWrites' = L.writes
    /\ chatSetBy' = IF L.writes > chatWrites THEN "stream" ELSE chatSetBy
    /\ handled' = L.handled
    /\ IF L.thrown
       THEN /\ pc' = "failed"
            /\ error' = [origin |-> "line", name |-> L.name, message |-> L.message]
            /\ shown' = Append(shown \o SubSeq(L.sink, Len(sinkCalls) + 1, Len(L.sink)),
                               ErrorText(path, ProviderName, L.message))
            /\ Finally(FALSE)
       ELSE /\ pc' = IF done THEN "completed" ELSE "reading"
            /\ error' = error
            /\ shown' = shown \o SubSeq(L.sink, Len(sinkCalls) + 1, Len(L.sink))
            /\ IF done THEN Finally(TRUE) ELSE Busy

\* reader.read() resolves with the next k bytes of the body
ReadChunk(k) ==
    /\ pc = "reading"
    /\ pos + k <= Len(body)
    /\ LET L == OnChunk(Loop, SubSeq(body, pos + 1, pos + k), HasChatIdBranch)
       IN /\ Settle(L, FALSE)
          /\ cuts' = [inChar |-> cuts.inChar \/ L.decoder.needed > 0,
                      inLine |-> cuts.inLine \/ L.buffer # <<>>]
    /\ pos' = pos + k
    /\ UNCHANGED <<impl, previous, hasText, transmitted, path, mode, sent, body,
                   sourceDone, requests, sends>>

\* reader.read() resolves with done = true once the body is exhausted
ReadDone ==
    /\ pc = "reading"
    /\ pos = Len(body)
    /\ Settle(OnDone(Loop, HasChatIdBranch), TRUE)
    /\ sourceDone' = TRUE
    /\ UNCHANGED <<impl, previous, hasText, transmitted, path, mode, sent, body,
                   pos, cuts, requests, sends>>

\* a read that is tried again by asking anew when the connection broke
ReadFailAsksAgain(message) ==
    /\ pc = "reading"
    /\ pc' = "fetching"
    /\ requests' = requests + 1
    /\ Busy
    /\ UNCHANGED <<impl, previous, hasText, transmitted, path, mode, sent, body,
                   pos, sourceDone, decoder, decoded, buffer, fullText, sinkCalls,
                   shown, currentChatId, chatWrites, chatSetBy, handled, error,
                   cuts, sends>>

\* reader.read() rejects: the connection broke
ReadFail(message) ==
    /\ pc = "reading"
    /\ Fail("read", "TypeError", message)
    /\ UNCHANGED <<impl, previous, hasText, transmitted, path, mode, sent, body,
                   pos, sourceDone, decoder, decoded, buffer, fullText, sinkCalls,
                   currentChatId, chatWrites, chatSetBy, handled, cuts, requests,
                   sends>>

\* fetch rejects: no response at all
FetchFail ==
    /\ pc = "fetching"
    /\ Fail("fetch", "TypeError", FailedToFetch)
    /\ UNCHANGED <<impl, previous, hasText, transmitted, path, mode, sent, body,
                   pos, sourceDone, decoder, decoded, buffer, fullText, sinkCalls,
                   currentChatId, chatWrites, chatSetBy, handled, cuts, requests,
                   sends>>

\* the response is not ok: api.streamMessage throws the server's message (or
\* the status line), sendMessageWithFiles always the status line
RespondNotOk(message) ==
    /\ pc = "fetching"
    /\ Fail("http", "Error", IF path = "files" THEN HttpStatusMessage ELSE message)
    /\ UNCHANGED <<impl, previous, hasText, transmitted, path, mode, sent, body,
                   pos, sourceDone, decoder, decoded, buffer, fullText, sinkCalls,
                   currentChatId, chatWrites, chatSetBy, handled, cuts, requests,
                   sends>>

\* the response is ok but its body cannot be read as a stream: streamAIResponse
\* asks again with api.sendMessage, sendMessageWithFiles awaits response.json()
RespondNoBody(header) ==
    /\ pc = "fetching"
    /\ ReadHeader(header)
    /\ pc' = "fallback"
    /\ mode' = "fallback"
    /\ requests' = IF path = "stream" THEN requests + 1 ELSE requests
    /\ fullText' = IF path = "stream" THEN <<>> ELSE fullText
    /\ Busy
    /\ UNCHANGED <<impl, previous, hasText, transmitted, path, sent, body, pos,
                   sourceDone, decoder, decoded, buffer, sinkCalls, shown, handled,
                   error, cuts, sends>>

\* the non-streaming result arrives: its response is rendered, and markdown.js's
\* streamAIResponse records its chat_id; a result without response is an error
FallbackResult(result) ==
    /\ pc = "fallback"
    /\ IF Truthy(result.success) /\ Truthy(result.response)
       THEN LET records == impl = "markdown" /\ path = "stream"
                               /\ Truthy(result.chat_id)
            IN /\ pc' = "completed"
               /\ shown' = Append(shown, JsToString(result.response))
               /\ error' = error
               /\ currentChatId' = IF records THEN result.chat_id ELSE currentChatId
               /\ chatWrites' = IF records THEN chatWrites + 1 ELSE chatWrites
               /\ chatSetBy' = IF records THEN "stream" ELSE chatSetBy
               /\ Finally(TRUE)
       ELSE /\ Fail("fallback", "Error", InvalidResponse)
            /\ UNCHANGED <<currentChatId, chatWrites, chatSetBy>>
    /\ UNCHANGED <<impl, previous, hasText, transmitted, path, mode, sent, body,
                   pos, sourceDone, decoder, decoded, buffer, fullText, sinkCalls,
                   handled, cuts, requests, sends>>

\* the non-streaming result does not arrive: api.sendMessage's fetch rejects,
\* or response.json() rejects what is no JSON
FallbackFail ==
    /\ pc = "fallback"
    /\ IF path = "stream"
       THEN Fail("fetch", "TypeError", FailedToFetch)
       ELSE Fail("fallback", "SyntaxError", NotJsonMessage)
    /\ UNCHANGED <<impl, previous, hasText, transmitted, path, mode, sent, body,
                   pos, sourceDone, decoder, decoded, buffer, fullText, sinkCalls,
                   currentChatId, chatWrites, chatSetBy, handled, cuts, requests,
                   sends>>

\* loadChat(chatId) up to its await (markdown.js): the chat picked in the
\* sidebar becomes the current one
LoadChat(chatId) ==
    /\ impl = "markdown"
    /\ currentChatId' = JsNum(chatId)
    /\ chatSetBy' = "user"
    /\ Busy
    /\ UNCHANGED <<impl, previous, hasText, transmitted, pc, path, mode, sent,
                   body, pos, sourceDone, decoder, decoded, buffer, fullText,
                   sinkCalls, shown, chatWrites, handled, error, cuts, requests,
                   sends>>

\* createNewChat() (markdown.js): no chat is current
CreateNewChat ==
    /\ impl = "markdown"
    /\ currentChatId' = JsNull
    /\ chatSetBy' = "user"
    /\ Busy
    /\ UNCHANGED <<impl, previous, hasText, transmitted, pc, path, mode, sent,
                   body, pos, sourceDone, decoder, decoded, buffer, fullText,
                   sinkCalls, shown, chatWrites, handled, error, cuts, requests,
                   sends>>

\* a handleInputChange that enables the button by the input alone
HandleInputIgnoresProcessing(text) ==
    /\ hasText' = text
    /\ sendDisabled' = ((~text /\ (impl = "legacy" \/ selectedFiles = <<>>)))
    /\ UNCHANGED <<impl, previous, transmitted, pc, path, mode, sent, body, pos,
                   sourceDone, decoder, decoded, buffer, fullText, sinkCalls,
                   shown, currentChatId, chatWrites, chatSetBy, handled, error,
                   cuts, requests, sends, selectedFiles, isProcessing, pending,
                   inflight>>

\* the input event of messageInput: handleInputChange sets the button from
\* the text, the files (not in part_004) and isProcessing
HandleInput(text) ==
    /\ hasText' = text
    /\ sendDisabled' = ((~text /\ (impl = "legacy" \/ selectedFiles = <<>>))
                          \/ isProcessing)
    /\ UNCHANGED <<impl, previous, transmitted, pc, path, mode, sent, body, pos,
                   sourceDone, decoder, decoded, buffer, fullText, sinkCalls,
                   shown, currentChatId, chatWrites, chatSetBy, handled, error,
                   cuts, requests, sends, selectedFiles, isProcessing, pending,
                   inflight>>

\* handleFileSelect with one file that is not too large
HandleFileSelect(file) ==
    /\ impl # "legacy"
    /\ Len(selectedFiles) < MaxFiles
    /\ selectedFiles' = Append(selectedFiles, file)
    /\ pending' = IF isProcessing THEN Append(pending, file) ELSE pending
    /\ UNCHANGED <<impl, previous, hasText, transmitted, pc, path, mode, sent,
                   body, pos, sourceDone, decoder, decoded, buffer, fullText,
                   sinkCalls, shown, currentChatId, chatWrites, chatSetBy,
                   handled, error, cuts, requests, sends, isProcessing,
                   sendDisabled, inflight>>

\* s without its element at index
Splice(s, index) == SubSeq(s, 1, index - 1) \o SubSeq(s, index + 1, Len(s))

\* the click on the remove button of the file tag at index
RemoveFile(index) ==
    /\ impl # "legacy"
    /\ index \in 1..Len(selectedFiles)
    /\ selectedFiles' = Splice(selectedFiles, index)
    /\ LET kept == Len(selectedFiles) - Len(pending)
       IN pending' = IF index > kept THEN Splice(pending, index - kept) ELSE pending
    /\ UNCHANGED <<impl, previous, hasText, transmitted, pc, path, mode, sent,
                   body, pos, sourceDone, decoder, decoded, buffer, fullText,
                   sinkCalls, shown, currentChatId, chatWrites, chatSetBy,
                   handled, error, cuts, requests, sends, isProcessing,
                   sendDisabled, inflight>>

\* sendMessage is called and returns at its first line
Returns ==
    /\ ~(hasText \/ selectedFiles # <<>>) \/ isProcessing
    /\ UNCHANGED vars

\* Enter without Shift in messageInput: handleKeyDown calls sendMessage
KeyDown == SendMessage(selectedFiles # <<>>, MaxSends) \/ Returns

\* a click on the send button, which only an enabled button takes
Click == ~sendDisabled /\ (SendMessage(selectedFiles # <<>>, MaxSends) \/ Returns)

\* part_004: simulateAIResponse returns the API's response, or a mock response
\* when the API fails or reports no success; addMessage shows it, and throws
\* on a response that is no string, which sendMessage's catch answers with the
\* generic message
SimulateAIResponse(result) ==
    /\ pc = "simulating"
    /\ LET answer == IF Truthy(result.success) THEN result.response
                     ELSE JsStr(MockResponse)
       IN IF answer.t = "string"
          THEN /\ pc' = "completed"
               /\ shown' = Append(shown, answer.s)
               /\ error' = error
          ELSE /\ pc' = "failed"
               /\ shown' = Append(shown, GenericError)
               /\ error' = [origin |-> "fallback", name |-> "TypeError",
                            message |-> <<>>]
    /\ Finally(TRUE)
    /\ UNCHANGED <<impl, previous, hasText, transmitted, path, mode, sent, body,
                   pos, sourceDone, decoder, decoded, buffer, fullText, sinkCalls,
                   currentChatId, chatWrites, chatSetBy, handled, cuts, requests,
                   sends>>

\* one send, from the click to the end of its response
Next ==
    \/ \E hasFiles \in BOOLEAN : SendMessage(hasFiles, 1)
    \/ \E header \in HeaderMenu, lines \in LinesMenu, terminated \in BOOLEAN :
          Respond(header, lines, terminated)
    \/ \E k \in ChunkLens(Len(body) - pos) : ReadChunk(k)
    \/ ReadDone
    \/ \E message \in TransportMessages : ReadFail(message)
    \/ FetchFail
    \/ \E message \in HttpErrorMenu : RespondNotOk(message)
    \/ \E header \in HeaderMenu : RespondNoBody(header)
    \/ \E result \in ResultMenu : FallbackResult(result)
    \/ FallbackFail

Spec == Init /\ [][Next]_vars

\* up to MaxSends sends one after the other, of short responses, while the
\* user may type, pick a chat or start a new one
NextSends ==
    \/ \E hasFiles \in BOOLEAN : SendMessage(hasFiles, MaxSends)
    \/ \E header \in HeaderMenu, lines \in SendsLinesMenu, terminated \in BOOLEAN :
          Respond(header, lines, terminated)
    \/ \E k \in ChunkLens(Len(body) - pos) : ReadChunk(k)
    \/ ReadDone
    \/ \E message \in TransportMessages : ReadFail(message)
    \/ FetchFail
    \/ \E message \in HttpErrorMenu : RespondNotOk(message)
    \/ \E header \in HeaderMenu : RespondNoBody(header)
    \/ \E result \in ResultMenu : FallbackResult(result)
    \/ FallbackFail
    \/ \E chatId \in ChatMenu : LoadChat(chatId)
    \/ CreateNewChat
    \/ \E text \in BOOLEAN : HandleInput(text)

SpecSends == Init /\ [][NextSends]_vars

\* the input area of the three pages while sends come and go: typing, picking
\* and removing files, Enter and clicks at any moment
NextUi ==
    \/ KeyDown
    \/ Click
    \/ \E text \in BOOLEAN : HandleInput(text)
    \/ \E file \in FileMenu : HandleFileSelect(file)
    \/ \E index \in 1..MaxFiles : RemoveFile(index)
    \/ \E header \in HeaderMenu, lines \in {<<LineBare>>, <<LineError>>} :
          Respond(header, lines, TRUE)
    \/ \E k \in ChunkLens(Len(body) - pos) : ReadChunk(k)
    \/ ReadDone
    \/ \E message \in TransportMessages : ReadFail(message)
    \/ FetchFail
    \/ \E message \in HttpErrorMenu : RespondNotOk(message)
    \/ \E header \in HeaderMenu : RespondNoBody(header)
    \/ \E result \in ResultMenu : FallbackResult(result)
    \/ FallbackFail
    \/ \E result \in LegacyResultMenu : SimulateAIResponse(result)

SpecUi == InitUi /\ [][NextUi]_vars

-----------------------------------------------------------------------------
(* What the claims speak of, read off the response rather than off the loop *)

\* the response is being, or has been, read as a stream
Started == mode = "stream" /\ pc \in {"reading", "completed", "failed"}

\* the lines of the text decoded so far, the last one unterminated
DecodedLines == SplitLines(decoded)

\* the lines the loop has been given so far: the terminated ones, and at the
\* end of the body the unterminated rest unless it is blank
ObservedCount ==
    IF sourceDone /\ ~IsBlank(DecodedLines[Len(DecodedLines)])
    THEN Len(DecodedLines)
    ELSE Len(DecodedLines) - 1

IsFramed(line) == IsPrefixOf(DataPrefix, line)

\* the delta of a line: the content of a framed JSON payload, a framed payload
\* that is no JSON (and neither blank nor the sentinel), a bare line that is not
\* blank; <<>> when the line carries no delta
DeltaOf(line) ==
    LET data == Slice6(line)
        p == JSONParse(data)
    IN CASE ~IsFramed(line) -> IF IsBlank(line) THEN <<>> ELSE line
         [] data = DoneSentinel -> <<>>
         [] ~p.ok -> IF IsBlank(data) THEN <<>> ELSE data
         [] Truthy(GetProp(p.v, KeyContent)) -> JsToString(GetProp(p.v, KeyContent))
         [] OTHER -> <<>>

\* the deltas of the first n lines, concatenated
DeltasUpTo(n) == Concat([i \in 1..n |-> DeltaOf(DecodedLines[i])])

\* the lines among the first n that carry a delta
DeltaLines(n) == {i \in 1..n : DeltaOf(DecodedLines[i]) # <<>>}

\* the text after each delta of the first n lines, in line order
RunningTexts(n) ==
    [j \in 1..Cardinality(DeltaLines(n)) |->
       DeltasUpTo(CHOOSE i \in DeltaLines(n) :
                    Cardinality({q \in DeltaLines(n) : q < i}) = j - 1)]

HasChar(text, c) == \E i \in 1..Len(text) : text[i] = c

-----------------------------------------------------------------------------
(* C1: UTF-8 split safety *)

\* bytes of an unfinished character the decoder holds
PendingBytes == IF decoder.needed = 0 THEN 0 ELSE decoder.seen + 1

\* Я€😀
TextRu == <<1071, 8364, 128512>>

\* the byte order mark the decoder has dropped from the head of the stream
DroppedMark ==
    IF decoder.bomSeen /\ sent # <<>> /\ sent[1] = ByteOrderMark
    THEN <<ByteOrderMark>> ELSE <<>>

\* C1: however the bytes of a multi-byte character are cut into chunks, the text
\* decoded so far is the response's text up to the last complete character (a
\* byte order mark at the head of the stream left out): it never holds U+FFFD,
\* the bytes of an incomplete character add nothing to it until the rest
\* arrives, and at the end fullText holds the characters of the content sent.
C1_Utf8SplitSafe ==
    Started =>
      /\ ~HasChar(decoded, ReplacementChar)
      /\ ~HasChar(buffer, ReplacementChar)
      /\ ~HasChar(fullText, ReplacementChar)
      /\ PendingBytes <= pos
      /\ Utf8Encode(DroppedMark \o decoded) = SubSeq(body, 1, pos - PendingBytes)
      /\ (pc = "completed" /\ sent = Append(LineContentRu, LF) => fullText = TextRu)

\* a response whose multi-byte characters were cut inside has been read to its end
C1_Witness ==
    /\ pc = "completed"
    /\ cuts.inChar
    /\ sent = Append(LineContentRu, LF)
    /\ fullText = TextRu

-----------------------------------------------------------------------------
(* C2: line split safety *)

\* the whole body read as one chunk, then done
OneChunk ==
    LET whole == OnChunk(LoopStart(JsNull, 0), body, HasChatIdBranch)
    IN IF whole.thrown THEN whole ELSE OnDone(whole, HasChatIdBranch)

\* C2: when the body has been read to its end (or an error line has ended the
\* loop), fullText, the texts given to the sink and the outcome are those of
\* reading the whole body as one chunk, however the body was cut.
C2_LineSplitSafe ==
    (Started /\ pc \in {"completed", "failed"} /\ error.origin # "read") =>
      /\ fullText = OneChunk.fullText
      /\ sinkCalls = OneChunk.sink
      /\ (pc = "failed") = OneChunk.thrown
      /\ error.name = OneChunk.name
      /\ error.message = OneChunk.message

\* a body of two deltas, cut inside a line, has been read to its end
C2_Witness ==
    /\ pc = "completed"
    /\ cuts.inLine
    /\ Len(sinkCalls) = 2
    /\ pos = Len(body)

-----------------------------------------------------------------------------
(* C3: fullText is the concatenation of the deltas so far *)

C3_State ==
    Started =>
      /\ pc # "failed" => handled = ObservedCount
      /\ handled <= ObservedCount
      /\ fullText = DeltasUpTo(handled)

C3_Step == pc = "reading" => IsPrefixOf(fullText, fullText')

\* C3: fullText is the concatenation, in arrival order, of the deltas of the
\* lines handled so far (all the lines received, unless an error ended the
\* loop), and a step of the loop only appends to it.
C3_TextIsConcatenation == [](C3_State) /\ [][C3_Step]_vars

\* three deltas of three kinds have been appended
C3_Witness ==
    /\ pc = "completed"
    /\ sent = BodyText(<<LinePlain, LineBare>>, TRUE)
\* yok
    /\ fullText = <<121, 111, 107>>

-----------------------------------------------------------------------------
(* C4: abort on a server error *)

\* the payload of a framed line, parsed; ok is FALSE for a bare line, the
\* sentinel and a payload that is no JSON
PayloadOf(line) ==
    IF IsFramed(line) /\ Slice6(line) # DoneSentinel
    THEN JSONParse(Slice6(line))
    ELSE [ok |-> FALSE, v |-> JsUndefined]

HasMember(v, key) == v.t = "object" /\ \E i \in 1..Len(v.m) : v.m[i][1] = key

\* a framed line whose JSON payload carries an `error` field, and neither
\* `content` nor `chat_id`, which the loop looks at first
ErrorField(line) ==
    /\ PayloadOf(line).ok
    /\ HasMember(PayloadOf(line).v, KeyError)
    /\ ~HasMember(PayloadOf(line).v, KeyContent)
    /\ ~HasMember(PayloadOf(line).v, KeyChatId)

\* C4: a framed line whose JSON payload carries an `error` field stops the loop
\* with a failure that carries the error's message: no such line is ever passed
\* over, and once the loop has failed nothing more is read or appended.
C4_AbortOnErrorField ==
    Started =>
      /\ \A i \in 1..handled : ~ErrorField(DecodedLines[i])
      /\ (pc = "failed" /\ error.origin = "line"
             /\ ErrorField(DecodedLines[handled + 1])) =>
           /\ error.message =
                JsToString(GetProp(PayloadOf(DecodedLines[handled + 1]).v, KeyError))
           /\ fullText = DeltasUpTo(handled)

-----------------------------------------------------------------------------
(* C5: no retraction on error *)

\* C5: when a server error line has ended a stream after deltas were given to
\* the sink, the last text given to the sink for that response still begins
\* with the partial text.
C5_NoRetraction ==
    (pc = "failed" /\ error.origin = "line" /\ error.name = "Error"
        /\ sinkCalls # <<>>) =>
      IsPrefixOf(sinkCalls[Len(sinkCalls)], shown[Len(shown)])

-----------------------------------------------------------------------------
(* C6: sink discipline *)

\* C6: the loop calls the sink once for each line that carries a delta, in line
\* order, each time with the whole text as it stands after that delta; a line
\* without a delta (sentinel, chat_id, blank) causes no call.
C6_SinkDiscipline ==
    Started =>
      /\ sinkCalls = RunningTexts(handled)
      /\ Len(sinkCalls) = Cardinality(DeltaLines(handled))
      /\ pc # "failed" => handled = ObservedCount

\* two deltas and a line without one have been handled
C6_Witness ==
    /\ pc = "completed"
    /\ sent = BodyText(<<LineContent, LinePlain>>, FALSE)
\* hi | hiyo
    /\ sinkCalls = <<<<104, 105>>, <<104, 105, 121, 111>>>>

-----------------------------------------------------------------------------
(* C7: the sink's texts grow *)

-----------------------------------------------------------------------------
(* C8: chat_id is a side channel *)

\* a framed line whose JSON payload carries `chat_id` and no content
CarriesChatId(line) ==
    /\ PayloadOf(line).ok
    /\ HasMember(PayloadOf(line).v, KeyChatId)
    /\ ~HasMember(PayloadOf(line).v, KeyContent)

\* a framed line whose JSON payload has a chat_id that is neither 0, empty,
\* null nor false, and no content that is
RecordsChatId(line) ==
    /\ PayloadOf(line).ok
    /\ Truthy(GetProp(PayloadOf(line).v, KeyChatId))
    /\ ~Truthy(GetProp(PayloadOf(line).v, KeyContent))

ChatIdOf(line) == GetProp(PayloadOf(line).v, KeyChatId)

Greatest(S) == CHOOSE m \in S : \A x \in S : x <= m

CarryingLines == {i \in 1..handled : CarriesChatId(DecodedLines[i])}
RecordingLines == {i \in 1..handled : RecordsChatId(DecodedLines[i])}

-----------------------------------------------------------------------------
(* C9: the chat id is set at most once *)

\* C9: for one response, the header and the chat_id lines together, at most one
\* assignment to currentChatId is made.
C9_SetAtMostOnce == chatWrites <= 1

-----------------------------------------------------------------------------
(* C10: plain-text fallback *)

\* a framed line whose payload is no JSON, is not blank and is not the sentinel
PlainFramed(line) ==
    /\ IsFramed(line)
    /\ Slice6(line) # DoneSentinel
    /\ ~JSONParse(Slice6(line)).ok
    /\ ~IsBlank(Slice6(line))

\* the text before the delta of line i
TextBefore(i) == DeltasUpTo(i - 1)

\* C10: a framed line whose payload is no JSON (and neither blank nor the
\* sentinel) never fails the stream; its payload, the characters after
\* `data: `, is appended to fullText, the sink is called with the new text, and
\* the lines after it are handled.
C10_PlainTextFallback ==
    Started =>
      /\ \A i \in 1..handled :
           PlainFramed(DecodedLines[i]) =>
             LET j == Cardinality(DeltaLines(i))
             IN /\ i \in DeltaLines(i)
                /\ j <= Len(sinkCalls)
                /\ sinkCalls[j] = TextBefore(i) \o Slice6(DecodedLines[i])
                /\ IsPrefixOf(sinkCalls[j], fullText)
      /\ (pc = "failed" /\ error.origin = "line") =>
           ~PlainFramed(DecodedLines[handled + 1])
      /\ pc # "failed" => handled = ObservedCount

\* a payload that is no JSON has been appended, and the line after it handled
C10_Witness ==
    /\ pc = "completed"
    /\ sent = BodyText(<<LinePlain, LineContent>>, TRUE)
\* yo | yohi
    /\ sinkCalls = <<<<121, 111>>, <<121, 111, 104, 105>>>>
\* yohi
    /\ fullText = <<121, 111, 104, 105>>

-----------------------------------------------------------------------------
(* C11: the sentinel alone *)

\* `data: [DONE]\n`, and the same with the blank line simulateStream adds
SentinelOnly == {BodyText(<<LineDone>>, TRUE), BodyText(<<LineDone, LineBlank>>, TRUE)}

\* C11: a stream whose only line is `data: [DONE]` never appends to fullText
\* and never calls the sink, however it is cut, and once the source has
\* reported done the outcome is completed; only a broken connection fails it.
C11_SentinelOnly ==
    (Started /\ sent \in SentinelOnly) =>
      /\ fullText = <<>>
      /\ sinkCalls = <<>>
      /\ pc = "failed" =>
           /\ error.origin = "read"
           /\ shown = <<ErrorText(path, ProviderName, error.message)>>
      /\ pc # "failed" => shown = <<>>
      /\ sourceDone => pc = "completed"

\* the sentinel, cut inside the line, has been read to the end
C11_Witness ==
    /\ pc = "completed"
    /\ sent = BodyText(<<LineDone>>, TRUE)
    /\ cuts.inLine
    /\ sourceDone
    /\ fullText = <<>>

-----------------------------------------------------------------------------
(* C12: server errors and transport failures are told apart *)

LastShown == shown[Len(shown)]

\* the failure is rendered as one of the server, carrying the server's message
ShownAsServerError ==
    \/ LastShown = ApiErrorHead \o error.message \o ApiErrorTail
    \/ LastShown = ConfigErrorHead \o ProviderName \o ConfigErrorBody \o error.message

\* the failure is rendered as one of the connection
ShownAsTransport == IsPrefixOf(NetworkErrorHead, LastShown)

\* C12: a failure caused by a server `error` line is reported as a server error
\* that carries the server's message, a failure of fetch or reader.read() as a
\* transport failure, on the streamAIResponse and the sendMessageWithFiles path.
C12_KindsDistinguished ==
    (pc = "failed" /\ shown # <<>>) =>
      /\ (error.origin = "line" /\ error.name = "Error") =>
           ShownAsServerError /\ ~ShownAsTransport
      /\ error.origin \in {"read", "fetch"} => ShownAsTransport

-----------------------------------------------------------------------------
(* C13: no retry *)

\* the send has failed because fetch or reader.read() rejected
TransportFailed == pc = "failed" /\ error.origin \in {"read", "fetch"}

C13_State ==
    /\ requests <= 2
    /\ requests = 2 => mode = "fallback"
    /\ TransportFailed =>
         \* the deltas once each, then the one rendering of the failure
         /\ shown = sinkCalls \o <<ErrorText(path, ProviderName, error.message)>>
         /\ mode # "fallback" => requests = 1

C13_Step ==
    /\ requests' # requests =>
         \/ sends' = sends + 1
         \/ pc = "fetching" /\ pc' = "fallback"
    /\ (TransportFailed /\ sends' = sends) =>
         /\ pc' = "failed"
         /\ UNCHANGED <<pos, sourceDone, fullText, sinkCalls, shown, error, requests>>

\* C13: a send whose fetch or reader.read() rejects ends in one failure: it is
\* rendered once after the deltas already delivered, the read is not tried
\* again and no request is issued for that send; only a new send goes on.
C13_NoRetry == [](C13_State) /\ [][C13_Step]_vars

\* the connection broke after a delta was delivered and before the body ended
C13_Witness ==
    /\ TransportFailed
    /\ error.origin = "read"
\* yo
    /\ sinkCalls = <<<<121, 111>>>>
    /\ pos < Len(body)
    /\ requests = 1

-----------------------------------------------------------------------------
(* C14: the locals of a response start empty *)

\* the first line of this response that carries a delta
FirstDeltaLine == CHOOSE i \in DeltaLines(handled) : \A q \in DeltaLines(handled) : i <= q

C14_State ==
    Started =>
      /\ fullText = DeltasUpTo(handled)
      /\ pc = "reading" => buffer = DecodedLines[Len(DecodedLines)]
      /\ Len(sinkCalls) = Cardinality(DeltaLines(handled))
      /\ sinkCalls # <<>> => sinkCalls[1] = DeltaOf(DecodedLines[FirstDeltaLine])

C14_Step ==
    (pc = "fetching" /\ pc' = "reading") =>
      buffer' = <<>> /\ fullText' = <<>> /\ sinkCalls' = <<>>

\* C14: over any sequence of sends, the buffer and fullText of a response
\* start empty whatever the call before left in its own, so fullText is the
\* concatenation of this response's deltas, the buffer is the unterminated
\* rest of this response's text, and the first call of updateBotMessage
\* carries this response's first delta and nothing else.
C14_FreshPerResponse == [](C14_State) /\ [][C14_Step]_vars

\* the second send's first delta has been shown; the send before it failed
\* with text shown and a partial line in its buffer
C14_Witness ==
    /\ sends = 2
    /\ previous.pc = "failed"
    /\ previous.partial
    /\ previous.text
    /\ mode = "stream"
\* k
    /\ sinkCalls = <<<<107>>>>

-----------------------------------------------------------------------------
(* C15: who owns the buffer, fullText and the chat id *)

\* a step taken while a response is read that is no read of that response
ForeignStep == pc = "reading" /\ pc' = "reading" /\ pos' = pos

\* a read of the response that is being read
OwnStep == pc = "reading" /\ (pos' # pos \/ sourceDone' # sourceDone)

C15_Step ==
    /\ ForeignStep => UNCHANGED <<buffer, fullText>>
    /\ (ForeignStep /\ chatWrites > 0 /\ chatSetBy = "stream") => UNCHANGED currentChatId
    /\ (OwnStep /\ chatWrites > 0 /\ chatSetBy = "user") => UNCHANGED currentChatId

\* C15: while a response is being read, a step of another part of the program
\* changes neither the buffer, nor fullText, nor the chat id the loop has
\* recorded for this response, and a read of the response does not change a
\* chat id that another part of the program has set since.
C15_StateIsolation == [][C15_Step]_vars

-----------------------------------------------------------------------------
(* C16: every failure is rendered *)

FailureOrigins == {"line", "read", "fetch", "http", "fallback"}

\* C16: a send that has failed (on an error line or any other exception of the
\* loop, in reader.read(), in fetch, on a response that is not ok, or on a
\* non-streaming response that is invalid) has its error text rendered, once
\* and last, after the texts the loop rendered; a send that has not failed has
\* no error text rendered.
C16_FailureRendered ==
    /\ pc = "failed" =>
         /\ error.origin \in FailureOrigins
         /\ shown = sinkCalls \o <<ErrorText(path, ProviderName, error.message)>>
         /\ LastShown # <<>>
         /\ LastShown \notin {sinkCalls[i] : i \in 1..Len(sinkCalls)}
    /\ pc # "failed" => error = NoError

\* the non-streaming response of streamAIResponse's second request is invalid
C16_Witness ==
    /\ pc = "failed"
    /\ path = "stream"
    /\ error.origin = "fallback"
    /\ error.message = InvalidResponse
    /\ shown = <<ApiErrorHead \o InvalidResponse \o ApiErrorTail>>

-----------------------------------------------------------------------------
(* C17: the buffer between two reads *)

C17_State ==
    (Started /\ pc = "reading") =>
      /\ ~HasChar(buffer, LF)
      /\ buffer = DecodedLines[Len(DecodedLines)]
      /\ handled = Len(DecodedLines) - 1
      /\ fullText = DeltasUpTo(handled)
      /\ sinkCalls = RunningTexts(handled)

\* the step of a chunk after which the loop reads on: the complete lines of
\* buffer + chunk are the next lines handled, and the rest is the buffer
C17_Step ==
    (pc = "reading" /\ pc' = "reading" /\ pos' # pos) =>
      LET fresh == SubSeq(decoded', Len(decoded) + 1, Len(decoded'))
          lines == SplitLines(buffer \o fresh)
          complete == Len(lines) - 1
      IN /\ buffer' = lines[Len(lines)]
         /\ handled' = handled + complete
         /\ fullText' = fullText \o Concat([i \in 1..complete |-> DeltaOf(lines[i])])
         /\ Len(sinkCalls') = Len(sinkCalls)
                                + Cardinality({i \in 1..complete : DeltaOf(lines[i]) # <<>>})

\* C17: whenever the loop is about to read again, the buffer holds no newline:
\* it is the unterminated rest of the text decoded so far; every complete line
\* of buffer + chunk has been handled once, in order (fullText and the sink
\* calls are those of exactly the complete lines), and is no longer buffered.
C17_BufferInvariant == [](C17_State) /\ [][C17_Step]_vars

\* a line has been handled and the start of the next one waits in the buffer
C17_Witness ==
    /\ pc = "reading"
    /\ sent = BodyText(<<LineContent, LinePlain>>, TRUE)
    /\ cuts.inLine
    /\ handled = 1
\* data: y
    /\ buffer = <<100, 97, 116, 97, 58, 32, 121>>
\* hi
    /\ sinkCalls = <<<<104, 105>>>>

-----------------------------------------------------------------------------
(* C18: the last line without its newline *)

\* the text sent, with the newline its last line lacks
WithNewline == IF sent # <<>> /\ sent[Len(sent)] # LF THEN Append(sent, LF) ELSE sent

\* reading that text as one chunk, then done
NewlineEnded ==
    LET whole == OnChunk(LoopStart(JsNull, 0), Utf8Encode(WithNewline), HasChatIdBranch)
    IN IF whole.thrown THEN whole ELSE OnDone(whole, HasChatIdBranch)

\* C18: when the body has been read to its end, fullText, the sink calls, the
\* outcome (completed, or failed with which error) and the chat id recorded by
\* a line are those of the same body with its last line ended by a newline:
\* what is left in the buffer at done goes through the rules of a complete
\* line, once, before the loop ends.
C18_FinalFlush ==
    (Started /\ pc \in {"completed", "failed"} /\ error.origin # "read") =>
      /\ fullText = NewlineEnded.fullText
      /\ sinkCalls = NewlineEnded.sink
      /\ (pc = "failed") = NewlineEnded.thrown
      /\ error.name = NewlineEnded.name
      /\ error.message = NewlineEnded.message
      /\ NewlineEnded.writes > 0 => currentChatId = NewlineEnded.chatId
      /\ pc = "completed" => sourceDone /\ handled = ObservedCount

\* an error line without its newline has ended the send at done
C18_Witness ==
    /\ pc = "failed"
    /\ sourceDone
    /\ sent = BodyText(<<LineContent, LineError>>, FALSE)
    /\ buffer = LineError
\* quota
    /\ error.message = <<113, 117, 111, 116, 97>>
\* hi
    /\ sinkCalls = <<<<104, 105>>>>

-----------------------------------------------------------------------------
(* C19: the sentinel does not end the stream *)

\* the lines the step that is being taken gives to the for-loop: the complete
\* lines of buffer + chunk, or at done what the buffer holds
StepLines ==
    LET fresh == SubSeq(decoded', Len(decoded) + 1, Len(decoded'))
        lines == SplitLines(buffer \o fresh)
    IN IF sourceDone' THEN <<buffer>> ELSE SubSeq(lines, 1, Len(lines) - 1)

C19_Step ==
    (/\ pc = "reading"
     /\ pos' # pos \/ sourceDone' # sourceDone
     /\ StepLines # <<>>
     /\ \A i \in 1..Len(StepLines) : StepLines[i] = LineDone) =>
      /\ UNCHANGED <<fullText, sinkCalls, shown, currentChatId, chatWrites>>
      /\ pc' = "reading" \/ (pc' = "completed" /\ sourceDone')

C19_State ==
    Started =>
      /\ pc = "completed" => sourceDone /\ handled = ObservedCount
      /\ (pc = "failed" /\ ~sourceDone) => handled < Len(DecodedLines)
      /\ (pc = "completed" /\ sent \in {BodyText(<<LineDone, LineContent>>, t) : t \in BOOLEAN})
\* hi | hi
            => fullText = <<104, 105>> /\ sinkCalls = <<<<104, 105>>>>
      /\ (pc = "completed" /\ HasChatIdBranch
            /\ sent \in {BodyText(<<LineDone, LineChatId>>, t) : t \in BOOLEAN})
            => currentChatId = JsNum(42)
      /\ (sourceDone /\ sent \in {BodyText(<<LineDone, LineError>>, t) : t \in BOOLEAN})
\* quota
            => pc = "failed" /\ error.message = <<113, 117, 111, 116, 97>>

\* C19: a step that handles only `data: [DONE]` lines changes neither fullText,
\* nor what is shown, nor the chat id, and the loop reads on unless the body is
\* at its end; the lines after the sentinel are handled as any other (a
\* content line is shown, a chat_id recorded, an error ends the send); the loop
\* completes only at done, and fails only on a line or in a read.
C19_SentinelIgnored == [](C19_State) /\ [][C19_Step]_vars

\* a delta that came after the sentinel, in a later chunk, has been shown
C19_Witness ==
    /\ pc = "completed"
    /\ sent = BodyText(<<LineDone, LineContent>>, TRUE)
    /\ cuts.inLine
    /\ handled = 2
\* hi
    /\ sinkCalls = <<<<104, 105>>>>

-----------------------------------------------------------------------------
(* C20: lines without the prefix *)

\* the text that bare lines add: each line that is not blank, whole
BareText(lines) ==
    Concat([i \in 1..Len(lines) |-> IF IsBlank(lines[i]) THEN <<>> ELSE lines[i]])

\* the step gives the for-loop lines without the prefix only
BareStep ==
    /\ pc = "reading"
    /\ pos' # pos \/ sourceDone' # sourceDone
    /\ StepLines # <<>>
    /\ \A i \in 1..Len(StepLines) : ~IsPrefixOf(DataPrefix, StepLines[i])

C20_Step ==
    BareStep =>
      LET inked == {i \in 1..Len(StepLines) : ~IsBlank(StepLines[i])}
      IN /\ fullText' = fullText \o BareText(StepLines)
         /\ Len(sinkCalls') = Len(sinkCalls) + Cardinality(inked)
         /\ SubSeq(sinkCalls', 1, Len(sinkCalls)) = sinkCalls
         /\ inked # {} => sinkCalls'[Len(sinkCalls')] = fullText'
         /\ pc' # "failed"
         /\ UNCHANGED <<currentChatId, chatWrites>>

C20_State ==
    (pc = "completed"
       /\ sent \in {BodyText(<<LineContent, LineSpaces, LineSpaced>>, t) : t \in BOOLEAN})
\* hi k\r | hi | hi k\r
      => fullText = <<104, 105, 32, 107, 13>> /\ sinkCalls = <<<<104, 105>>, <<104, 105, 32, 107, 13>>>>

\* C20: a step whose lines all lack the `data: ` prefix appends to fullText
\* each of them that is not blank, whole (white space at its ends included,
\* the newline not), with one sink call per such line, the last one carrying
\* the new fullText; a blank line (empty or white space only) adds nothing and
\* causes no call; neither ends the send or touches the chat id.
C20_BareEvents == [](C20_State) /\ [][C20_Step]_vars

\* a bare line with white space at both ends, behind a line of white space,
\* has been appended as it is
C20_Witness ==
    /\ pc = "completed"
    /\ sent = BodyText(<<LineContent, LineSpaces, LineSpaced>>, TRUE)
    /\ handled = 3
\* hi | hi k\r
    /\ sinkCalls = <<<<104, 105>>, <<104, 105, 32, 107, 13>>>>

-----------------------------------------------------------------------------
(* C21: how a stream consumption ends *)

\* a framed line whose JSON payload carries an `error` field
IsErrorLine(line) == PayloadOf(line).ok /\ HasMember(PayloadOf(line).v, KeyError)

Terminal == Started /\ pc \in {"completed", "failed"}

C21_State ==
    Started =>
      /\ pc = "completed" => sourceDone /\ error = NoError
      /\ pc = "failed" =>
            \/ error.origin = "read"
            \/ error.origin = "line" /\ IsErrorLine(DecodedLines[handled + 1])

C21_Step ==
    /\ (Terminal /\ sends' = sends) =>
         UNCHANGED <<pc, pos, sourceDone, decoded, buffer, fullText, sinkCalls,
                     shown, chatWrites, handled, error>>
    /\ (pc = "reading" /\ pc' = "reading") => pos' > pos /\ pos' <= Len(body)
    /\ (pc = "fetching" /\ pc' = "reading") => pos' = 0 /\ ~sourceDone'

\* C21: a consumption starts reading at the head of the body; every answered
\* read either ends it or moves it forward in the body, so it ends once the
\* source reports done or fails; it is completed only after the source
\* reported done, failed only after a rejected read or on a line with an
\* `error` field; and from then on it reads, appends, records and shows
\* nothing more.
C21_Termination == [](C21_State) /\ [][C21_Step]_vars

-----------------------------------------------------------------------------
(* C22: one send at a time *)

InFlight == pc \in {"fetching", "simulating", "reading", "fallback"}

C22_State ==
    /\ inflight \in {0, 1}
    /\ isProcessing = (inflight = 1)
    /\ isProcessing = InFlight

\* while a send is in progress no step, Enter and click included, adds a user
\* message and a container, or starts a send anew
C22_Step ==
    isProcessing =>
      /\ sends' = sends
      /\ inflight' <= inflight
      /\ transmitted' = transmitted
      /\ requests' \in {requests, requests + 1}
      /\ (hasText /\ ~hasText') => (pc' = pc /\ sends' = sends)

\* C22: however Enter, clicks, typing and file picking interleave with a send,
\* at most one call of sendMessage is between isProcessing = true and its
\* finally block, isProcessing is true exactly while one is, and while it is
\* true no call is accepted: no user message, container or request is added
\* and the text typed meanwhile stays in the input.
C22_SingleInFlight == [](C22_State) /\ [][C22_Step]_vars

\* the user has typed and attached a file while the response is being read
C22_Witness ==
    /\ isProcessing
    /\ pc = "reading"
    /\ hasText
    /\ pending # <<>>
    /\ sends = 1
    /\ inflight = 1

-----------------------------------------------------------------------------
(* C23: isProcessing is released at every ending *)

Ended == sends > 0 /\ pc \in {"completed", "failed"}

C23_State == Ended => (~isProcessing /\ inflight = 0)

C23_Step ==
    (InFlight /\ ~InFlight') =>
      /\ Ended'
      /\ ~isProcessing'
      /\ sendDisabled' = (~hasText' /\ (impl = "legacy" \/ selectedFiles' = <<>>))

\* C23: every way a send ends - the stream completes, a line reports an
\* error or cannot be handled, the read or the request fails, the response
\* is not streamable, the plain request succeeds or fails, and the answer
\* of the first page - leaves isProcessing false, and the send button is
\* set from the input alone, so the next send is accepted.
C23_Released == [](C23_State) /\ [][C23_Step]_vars

\* the second send has failed and the page is ready for the next one
C23_Witness ==
    /\ sends = 2
    /\ pc = "failed"
    /\ ~isProcessing
    /\ hasText
    /\ ~sendDisabled

-----------------------------------------------------------------------------
(* C24: the send button during a send *)

C24_Step ==
    (isProcessing /\ isProcessing') =>
      (sendDisabled' /\ (sendDisabled' = sendDisabled))

\* C24: while isProcessing is true the send button is disabled, whatever
\* the user types or deletes and whichever files are picked or removed
\* meanwhile; no step of a send in progress changes the button.
C24_ButtonDisabled == [](isProcessing => sendDisabled) /\ [][C24_Step]_vars

\* before the response has arrived the user has typed and picked a file
C24_Witness ==
    /\ isProcessing
    /\ sendDisabled
    /\ hasText
    /\ pending # <<>>
    /\ pc = "fetching"

-----------------------------------------------------------------------------
(* C25: the chat id of a response and the chat the user has moved to *)

\* the user has left the chat of the send whose response is being consumed
MovedOn == pc \in {"reading", "fallback"} /\ chatSetBy = "user"

C25_Step == (MovedOn /\ chatSetBy' # "user") => UNCHANGED currentChatId

\* C25: once createNewChat or loadChat has run during a send, no later step
\* of that send (a chat_id line, the chat_id of a non-streaming response)
\* changes currentChatId: it stays null, or the chat that was loaded.
C25_ChatOfSend == [][C25_Step]_vars

-----------------------------------------------------------------------------
(* C26: files picked while a send is in flight *)

\* the files picked since the send was accepted, and not removed since, are
\* the last files of s
EndsWithPending(s) ==
    /\ Len(s) >= Len(pending)
    /\ SubSeq(s, Len(s) - Len(pending) + 1, Len(s)) = pending

C26_Step ==
    /\ (~isProcessing /\ isProcessing') => transmitted' = selectedFiles
    /\ (isProcessing /\ isProcessing') => transmitted' = transmitted
    /\ (isProcessing /\ ~isProcessing') => EndsWithPending(selectedFiles')

\* C26: the files sent with a send are the files selected when sendMessage
\* was accepted, and a file picked while the send is awaited is still
\* selected when the send has finished.
C26_FilesKept == [][C26_Step]_vars

-----------------------------------------------------------------------------
(* C27: the sentinel and white space after it *)

\* a framed line whose payload is the sentinel, white space aside
SentinelLine(line) == IsFramed(line) /\ TrimText(Slice6(line)) = DoneSentinel

C27_Step ==
    (/\ pc = "reading"
     /\ pos' # pos \/ sourceDone' # sourceDone
     /\ StepLines # <<>>
     /\ \A i \in 1..Len(StepLines) : SentinelLine(StepLines[i])) =>
      UNCHANGED <<fullText, sinkCalls, shown>>

\* C27: a step of the loop, or the flush at done, that handles only framed
\* lines whose payload is `[DONE]`, with or without white space after it
\* (the `\r` of a CRLF line ending), leaves fullText as it is and calls the
\* sink for nothing.
C27_NoSentinelText == [][C27_Step]_vars

-----------------------------------------------------------------------------
(* C28: what ends a stream in failure *)

\* a framed line whose payload is JSON without an `error` field
NoErrorField(line) == PayloadOf(line).ok /\ ~HasMember(PayloadOf(line).v, KeyError)

\* C28: the line on which the loop has failed is never a framed line whose
\* JSON payload has no `error` field (an object with other keys or none, a
\* number, a string, true, false, null): such lines are handled and the loop
\* goes on.
C28_OnlyErrorAborts ==
    (Started /\ pc = "failed" /\ error.origin = "line") =>
      ~NoErrorField(DecodedLines[handled + 1])

-----------------------------------------------------------------------------
(* C29: the typing indicator *)

\* the container of the send still holds what createBotMessageContainer put
\* there: updateBotMessage has not been called for it
TypingIndicatorShown == sends > 0 /\ shown = <<>>

\* C29: when a send has ended, completed or failed, and its finally block
\* has run, the container of the send shows a text (the response or an error
\* message) and not the typing indicator, also when the response carried no
\* delta.
C29_IndicatorReplaced == (Ended /\ ~isProcessing) => ~TypingIndicatorShown

-----------------------------------------------------------------------------
(* C30: the requests of a send without files *)

\* C30: a send without files has issued exactly one chat request at every
\* moment from its acceptance to its end, whether the response is read as a
\* stream or the non-streaming branch is taken.
C30_OneRequest == (sends > 0 /\ path = "stream") => requests = 1


=============================================================================
